---- MODULE Spec2Model ----
(***************************************************************************)
(* A model of build.py, the static blog builder: the inline renderer       *)
(* (render_inlines, linkify), the block renderer (render_body), the post   *)
(* loader (load_posts) and the build run (build, clean_output_dir).        *)
(*                                                                         *)
(* Text is a sequence of one-character strings; positions are 1-based      *)
(* (the source's index i is the model's i - 1) and a failed find is 0      *)
(* (the source's -1).  Rendered HTML is a sequence of tokens: a text       *)
(* character, an opening tag (with its href / id attribute) or a closing   *)
(* tag; the source's string concatenation is sequence concatenation.       *)
(***************************************************************************)
EXTENDS Integers, Sequences, FiniteSets, TLC

VARIABLES
    \* render_inlines (one top-level call): its locals, the context's counter
    \* and where the call is ("idle", "scan", "done")
    text, i, plain_buffer, segments, popover_index, pc,
    \* render_body: the body's lines, the number of the next line, the locals,
    \* the returned html and where the call is ("idle", "lines", "done")
    body, line_no, blocks, paragraph_lines, list_items, list_type, in_code_fence,
    code_lines, headings, heading_counts, context, html, body_pc,
    \* the sequence of render_body calls: the number of the call, whether it
    \* renders the body of the call before it, and that call's html
    call_no, repeat, prev_html,
    \* build: the posts directory and the output directory (whether each
    \* exists and what it holds), the paths load_posts has still to parse, its
    \* posts, the names build keeps, the number of the next post to write, the
    \* files clean_output_dir has still to visit, the files it has unlinked
    \* and where the run is
    posts_dir, output_dir, paths, posts, keep_files, post_no, pending, unlinked,
    build_pc

inlineVars == <<text, i, plain_buffer, segments, popover_index, pc>>
bodyLocals == <<blocks, paragraph_lines, list_items, list_type, in_code_fence,
                code_lines, headings, heading_counts, context>>
callVars == <<call_no, repeat, prev_html>>
bodyVars == <<body, line_no, bodyLocals, html, body_pc, callVars>>
buildVars == <<posts_dir, output_dir, paths, posts, keep_files, post_no, pending,
               unlinked, build_pc>>
vars == <<inlineVars, bodyVars, buildVars>>

(***************************************************************************)
(* Characters and strings                                                  *)
(***************************************************************************)
Whitespace == {" ", "\t"}

LowerSeq == <<"a", "b", "c", "d", "e", "f", "g", "h", "i", "j", "k", "l", "m",
             "n", "o", "p", "q", "r", "s", "t", "u", "v", "w", "x", "y", "z">>
UpperSeq == <<"A", "B", "C", "D", "E", "F", "G", "H", "I", "J", "K", "L", "M",
             "N", "O", "P", "Q", "R", "S", "T", "U", "V", "W", "X", "Y", "Z">>

LowerLetters == {LowerSeq[n] : n \in DOMAIN LowerSeq}
UpperLetters == {UpperSeq[n] : n \in DOMAIN UpperSeq}
Digits == {"0", "1", "2", "3", "4", "5", "6", "7", "8", "9"}

\* str.lower() on one character
LowerChar(c) ==
    IF c \in UpperLetters
    THEN LowerSeq[CHOOSE n \in DOMAIN UpperSeq : UpperSeq[n] = c]
    ELSE c

\* text.startswith(pat, p)
StartsWith(s, pat, p) ==
    /\ p >= 1
    /\ p + Len(pat) - 1 <= Len(s)
    /\ SubSeq(s, p, p + Len(pat) - 1) = pat

\* text.find(pat, from): the first position >= from where pat starts, 0 if none
Find(s, pat, from) ==
    LET hits == {q \in from..Len(s) : StartsWith(s, pat, q)}
    IN  IF hits = {} THEN 0 ELSE CHOOSE q \in hits : \A r \in hits : q <= r

\* str.strip()
RECURSIVE LStrip(_)
LStrip(s) ==
    IF s # <<>> /\ Head(s) \in Whitespace THEN LStrip(Tail(s)) ELSE s

RECURSIVE RStrip(_)
RStrip(s) ==
    IF s # <<>> /\ s[Len(s)] \in Whitespace
    THEN RStrip(SubSeq(s, 1, Len(s) - 1))
    ELSE s

Strip(s) == RStrip(LStrip(s))

\* F applied to the value of e, e evaluated once
With(e, F(_)) == CHOOSE v \in {F(x) : x \in {e}} : TRUE

RECURSIVE Concat(_)
Concat(ss) == IF ss = <<>> THEN <<>> ELSE Head(ss) \o Concat(Tail(ss))

(***************************************************************************)
(* HTML tokens                                                             *)
(***************************************************************************)
Txt(c) == [k |-> "txt", tag |-> c, attr |-> <<>>, id |-> 0]
Open(t, a, n) == [k |-> "open", tag |-> t, attr |-> a, id |-> n]
Close(t) == [k |-> "close", tag |-> t, attr |-> <<>>, id |-> 0]

TxtSeq(s) == [n \in 1..Len(s) |-> Txt(s[n])]

\* html.escape(c) for one character (quote=True, the default)
HtmlEscapeChar(c) ==
    CASE c = "&" -> <<"&", "a", "m", "p", ";">>
      [] c = "<" -> <<"&", "l", "t", ";">>
      [] c = ">" -> <<"&", "g", "t", ";">>
      [] c = "\"" -> <<"&", "q", "u", "o", "t", ";">>
      [] c = "'" -> <<"&", "#", "x", "2", "7", ";">>
      [] OTHER -> <<c>>

\* html.escape(s)
HtmlEscape(s) == Concat([n \in 1..Len(s) |-> HtmlEscapeChar(s[n])])

(***************************************************************************)
(* linkify: AUTOLINK_RE = [a-z][a-z0-9+.-]*://[^\s<]+  (IGNORECASE)        *)
(***************************************************************************)
SchemeStart == LowerLetters \cup UpperLetters
SchemeChar == SchemeStart \cup Digits \cup {"+", ".", "-"}

\* the end of the maximal run of characters satisfying a class, from p
RECURSIVE RunEnd(_, _, _)
RunEnd(s, p, class) ==
    IF p <= Len(s) /\ s[p] \in class THEN RunEnd(s, p + 1, class) ELSE p

RECURSIVE UrlEnd(_, _)
UrlEnd(s, p) ==
    IF p <= Len(s) /\ s[p] \notin Whitespace /\ s[p] # "<"
    THEN UrlEnd(s, p + 1)
    ELSE p

\* the position after an AUTOLINK_RE match starting at p, or 0
AutolinkMatch(s, p) ==
    IF p <= Len(s) /\ s[p] \in SchemeStart
    THEN LET e == RunEnd(s, p + 1, SchemeChar)
             u == UrlEnd(s, e + 3)
         IN  IF StartsWith(s, <<":", "/", "/">>, e) /\ u > e + 3 THEN u ELSE 0
    ELSE 0

\* linkify.repl: the anchor for one matched url
AutolinkAnchor(url) ==
    <<Open("a", HtmlEscape(url), 0)>> \o TxtSeq(HtmlEscape(url)) \o <<Close("a")>>

\* AUTOLINK_RE.sub(repl, text): leftmost, non-overlapping
RECURSIVE LinkifyFrom(_, _)
LinkifyFrom(s, p) ==
    IF p > Len(s) THEN <<>>
    ELSE LET e == AutolinkMatch(s, p)
         IN  IF e # 0
             THEN AutolinkAnchor(SubSeq(s, p, e - 1)) \o LinkifyFrom(s, e)
             ELSE <<Txt(s[p])>> \o LinkifyFrom(s, p + 1)

linkify(s) == LinkifyFrom(s, 1)

(***************************************************************************)
(* render_inlines                                                          *)
(***************************************************************************)
StarStar == <<"*", "*">>
Star == <<"*">>
\* the backquote character, which a TLA+ string cannot hold, is written "BQ"
BackquoteChar == "BQ"
Backtick == <<BackquoteChar>>
ParenParen == <<"(", "(">>
CloseParenParen == <<")", ")">>
ColonColon == <<":", ":">>

\* RenderContext.new_popover_id: the incremented counter is the id
NewPopoverId(ctx) == ctx + 1

\* flush_plain: escape the buffer, then autolink it
FlushPlain(buf, segs) ==
    IF buf # <<>> THEN segs \o linkify(HtmlEscape(buf)) ELSE segs

\* the closing delimiter of a strong, em, code or glossary span opening at p, or 0
StrongEnd(t, p) == IF StartsWith(t, StarStar, p) THEN Find(t, StarStar, p + 2) ELSE 0
EmEnd(t, p) == IF StartsWith(t, Star, p) THEN Find(t, Star, p + 1) ELSE 0
CodeEnd(t, p) == IF StartsWith(t, Backtick, p) THEN Find(t, Backtick, p + 1) ELSE 0
GlossaryEnd(t, p) ==
    IF StartsWith(t, ParenParen, p) THEN Find(t, CloseParenParen, p + 2) ELSE 0

\* content.split("::", 1), each part stripped
GlossaryParts_NoCheck(content) ==
    LET q == Find(content, ColonColon, 1)
    IN  IF q = 0
        THEN [sep |-> TRUE, term |-> Strip(content), definition |-> Strip(content)]
        ELSE [sep |-> TRUE,
              term |-> Strip(SubSeq(content, 1, q - 1)),
              definition |-> Strip(SubSeq(content, q + 2, Len(content)))]

GlossaryParts(content) ==
    LET q == Find(content, ColonColon, 1)
    IN  IF q = 0
        THEN [sep |-> FALSE, term |-> <<>>, definition |-> <<>>]
        ELSE [sep |-> TRUE,
              term |-> Strip(SubSeq(content, 1, q - 1)),
              definition |-> Strip(SubSeq(content, q + 2, Len(content)))]

\* the glossary rule consumes the span opening at p
GlossaryMatch(t, p) ==
    /\ GlossaryEnd(t, p) # 0
    /\ LET parts == GlossaryParts(SubSeq(t, p + 2, GlossaryEnd(t, p) - 1))
       IN  parts.sep /\ parts.term # <<>> /\ parts.definition # <<>>

\* the positions of the ] and the ) of an explicit link opening at p
LinkBracket(t, p) == IF StartsWith(t, <<"[">>, p) THEN Find(t, <<"]">>, p + 1) ELSE 0
LinkParen(t, p) ==
    LET cb == LinkBracket(t, p)
    IN  IF cb # 0 /\ cb + 1 <= Len(t) /\ t[cb + 1] = "("
        THEN Find(t, <<")">>, cb + 2)
        ELSE 0

\* which branch of the scan loop is taken at position p
RuleAt(t, p) ==
    IF StrongEnd(t, p) # 0 THEN "strong"
    ELSE IF EmEnd(t, p) # 0 THEN "em"
    ELSE IF CodeEnd(t, p) # 0 THEN "code"
    ELSE IF GlossaryMatch(t, p) THEN "glossary"
    ELSE IF LinkParen(t, p) # 0 THEN "link"
    ELSE "plain"

ScanState(t, p, buf, segs, ctx) ==
    [text |-> t, i |-> p, plain_buffer |-> buf, segments |-> segs, popover_index |-> ctx]

\* the explicit link's anchor around the rendered label
LinkAnchor(url, label_html) ==
    <<Open("a", HtmlEscape(url), 0)>> \o label_html \o <<Close("a")>>

\* the popover markup of one glossary term
PopoverHtml_Misnested(popover_id, term_raw, definition_html) ==
    <<Open("span", <<>>, 0), Open("button", <<>>, popover_id)>>
        \o TxtSeq(HtmlEscape(term_raw))
        \o <<Close("button"), Open("aside", <<>>, popover_id), Open("strong", <<>>, 0)>>
        \o TxtSeq(HtmlEscape(term_raw))
        \o <<Close("strong"), Open("span", <<>>, 0)>>
        \o definition_html
        \o <<Close("aside"), Close("span"), Close("span")>>

PopoverHtml(popover_id, term_raw, definition_html) ==
    <<Open("span", <<>>, 0), Open("button", <<>>, popover_id)>>
        \o TxtSeq(HtmlEscape(term_raw))
        \o <<Close("button"), Open("aside", <<>>, popover_id), Open("strong", <<>>, 0)>>
        \o TxtSeq(HtmlEscape(term_raw))
        \o <<Close("strong"), Open("span", <<>>, 0)>>
        \o definition_html
        \o <<Close("span"), Close("aside"), Close("span")>>

RECURSIVE render_inlines(_, _), ScanBranch(_, _), ScanFrom(_)

\* one iteration of the while loop, taking the branch rule
ScanBranch(st, rule) ==
    LET t == st.text
        p == st.i
    IN  CASE rule = "strong" ->
              With(render_inlines(SubSeq(t, p + 2, StrongEnd(t, p) - 1), st.popover_index),
                   LAMBDA inner :
                       ScanState(t, StrongEnd(t, p) + 2, <<>>,
                                 FlushPlain(st.plain_buffer, st.segments)
                                     \o <<Open("strong", <<>>, 0)>> \o inner.html
                                     \o <<Close("strong")>>,
                                 inner.ctx))
          [] rule = "em" ->
              With(render_inlines(SubSeq(t, p + 1, EmEnd(t, p) - 1), st.popover_index),
                   LAMBDA inner :
                       ScanState(t, EmEnd(t, p) + 1, <<>>,
                                 FlushPlain(st.plain_buffer, st.segments)
                                     \o <<Open("em", <<>>, 0)>> \o inner.html
                                     \o <<Close("em")>>,
                                 inner.ctx))
          [] rule = "code" ->
              ScanState(t, CodeEnd(t, p) + 1, <<>>,
                        FlushPlain(st.plain_buffer, st.segments)
                            \o <<Open("code", <<>>, 0)>>
                            \o TxtSeq(HtmlEscape(SubSeq(t, p + 1, CodeEnd(t, p) - 1)))
                            \o <<Close("code")>>,
                        st.popover_index)
          [] rule = "glossary" ->
              With(GlossaryParts(SubSeq(t, p + 2, GlossaryEnd(t, p) - 1)),
                   LAMBDA parts :
                       With(render_inlines(parts.definition,
                                           NewPopoverId(st.popover_index)),
                            LAMBDA inner :
                                ScanState(t, GlossaryEnd(t, p) + 2, <<>>,
                                          FlushPlain(st.plain_buffer, st.segments)
                                              \o PopoverHtml(NewPopoverId(st.popover_index),
                                                             parts.term, inner.html),
                                          inner.ctx)))
          [] rule = "link" ->
              With(render_inlines(SubSeq(t, p + 1, LinkBracket(t, p) - 1),
                                  st.popover_index),
                   LAMBDA inner :
                       ScanState(t, LinkParen(t, p) + 1, <<>>,
                                 FlushPlain(st.plain_buffer, st.segments)
                                     \o LinkAnchor(SubSeq(t, LinkBracket(t, p) + 2,
                                                          LinkParen(t, p) - 1),
                                                   inner.html),
                                 inner.ctx))
          [] OTHER ->
              ScanState(t, p + 1, Append(st.plain_buffer, t[p]), st.segments,
                        st.popover_index)

ScanStep(st) == With(RuleAt(st.text, st.i), LAMBDA rule : ScanBranch(st, rule))

\* the loop from a state to the end of the text, then the final flush_plain
ScanFrom(st) ==
    IF st.i > Len(st.text)
    THEN [html |-> FlushPlain(st.plain_buffer, st.segments), ctx |-> st.popover_index]
    ELSE With(ScanStep(st), LAMBDA next : ScanFrom(next))

\* render_inlines(text, context): the HTML and the context's counter afterwards
render_inlines(t, ctx) == ScanFrom(ScanState(t, 1, <<>>, <<>>, ctx))

(***************************************************************************)
(* extract_plain_text and slugify                                          *)
(***************************************************************************)
\* the end of the maximal run of characters outside a set, from p
RECURSIVE RunEndNot(_, _, _)
RunEndNot(s, p, excluded) ==
    IF p <= Len(s) /\ s[p] \notin excluded THEN RunEndNot(s, p + 1, excluded) ELSE p

NoMatch == [end |-> 0, keep |-> <<>>]

\* open ([^x]+) close at p: the last position of the match and group 1
DelimitedMatch(s, p, open, close, excluded) ==
    LET e == RunEndNot(s, p + Len(open), excluded)
    IN  IF StartsWith(s, open, p) /\ e > p + Len(open) /\ StartsWith(s, close, e)
        THEN [end |-> e + Len(close) - 1, keep |-> SubSeq(s, p + Len(open), e - 1)]
        ELSE NoMatch

\* \(\(([^:()]+)::([^()]+)\)\) at p
GlossaryPatternMatch(s, p) ==
    LET e1 == RunEndNot(s, p + 2, {":", "(", ")"})
        e2 == RunEndNot(s, e1 + 2, {"(", ")"})
    IN  IF /\ StartsWith(s, ParenParen, p)
           /\ e1 > p + 2
           /\ StartsWith(s, ColonColon, e1)
           /\ e2 > e1 + 2
           /\ StartsWith(s, CloseParenParen, e2)
        THEN [end |-> e2 + 1, keep |-> SubSeq(s, p + 2, e1 - 1)]
        ELSE NoMatch

\* \[(.*?)\]\((.*?)\) at p
LinkPatternMatch(s, p) ==
    LET q == Find(s, <<"]", "(">>, p + 1)
        r == IF q = 0 THEN 0 ELSE Find(s, <<")">>, q + 2)
    IN  IF StartsWith(s, <<"[">>, p) /\ q # 0 /\ r # 0
        THEN [end |-> r, keep |-> SubSeq(s, p + 1, q - 1)]
        ELSE NoMatch

PatternMatch(pat, s, p) ==
    CASE pat = "glossary" -> GlossaryPatternMatch(s, p)
      [] pat = "code" -> DelimitedMatch(s, p, Backtick, Backtick, {BackquoteChar})
      [] pat = "strong" -> DelimitedMatch(s, p, StarStar, StarStar, {"*"})
      [] pat = "em" -> DelimitedMatch(s, p, Star, Star, {"*"})
      [] OTHER -> LinkPatternMatch(s, p)

\* re.sub(pattern, r"\1", s): leftmost matches, left to right, not overlapping
RECURSIVE SubFrom(_, _, _)
SubFrom(pat, s, p) ==
    IF p > Len(s) THEN <<>>
    ELSE LET m == PatternMatch(pat, s, p)
         IN  IF m.end # 0
             THEN m.keep \o SubFrom(pat, s, m.end + 1)
             ELSE <<s[p]>> \o SubFrom(pat, s, p + 1)

KeepGroup(pat, s) == SubFrom(pat, s, 1)

\* re.sub(r"\s+", " ", s)
RECURSIVE CollapseSpace(_)
CollapseSpace(s) ==
    IF s = <<>> THEN <<>>
    ELSE IF Head(s) \in Whitespace
         THEN <<" ">> \o CollapseSpace(LStrip(s))
         ELSE <<Head(s)>> \o CollapseSpace(Tail(s))

extract_plain_text(markup) ==
    Strip(CollapseSpace(
        KeepGroup("link", KeepGroup("em", KeepGroup("strong",
            KeepGroup("code", KeepGroup("glossary", markup)))))))

SlugChar == LowerLetters \cup Digits

\* re.sub(r"[^a-z0-9]+", "-", value.lower())
RECURSIVE Hyphenate(_)
Hyphenate(s) ==
    IF s = <<>> THEN <<>>
    ELSE IF LowerChar(Head(s)) \in SlugChar
         THEN <<LowerChar(Head(s))>> \o Hyphenate(Tail(s))
         ELSE <<"-">> \o Hyphenate(SubSeq(s, RunEndNot(s, 1, SlugChar \cup UpperLetters),
                                          Len(s)))

RECURSIVE StripHyphens(_)
StripHyphens(s) ==
    IF s # <<>> /\ Head(s) = "-" THEN StripHyphens(Tail(s))
    ELSE IF s # <<>> /\ s[Len(s)] = "-" THEN StripHyphens(SubSeq(s, 1, Len(s) - 1))
    ELSE s

slugify(value) ==
    LET slug == StripHyphens(Hyphenate(value))
    IN  IF slug # <<>> THEN slug ELSE <<"s", "e", "c", "t", "i", "o", "n">>

\* str(n) for n >= 0
RECURSIVE Decimal(_)
Decimal(n) ==
    LET digit == <<"0", "1", "2", "3", "4", "5", "6", "7", "8", "9">>[(n % 10) + 1]
    IN  IF n < 10 THEN <<digit>> ELSE Decimal(n \div 10) \o <<digit>>

(***************************************************************************)
(* render_body: the block state and its flushes                            *)
(***************************************************************************)
Fence == <<BackquoteChar, BackquoteChar, BackquoteChar>>

\* sep.join(parts)
RECURSIVE Join(_, _)
Join(parts, sep) ==
    IF parts = <<>> THEN <<>>
    ELSE IF Len(parts) = 1 THEN Head(parts)
    ELSE Head(parts) \o sep \o Join(Tail(parts), sep)

\* the local variables of one render_body call
BodyState(bl, pl, li, lt, fence, cl, hs, hc, ctx) ==
    [blocks |-> bl, paragraph_lines |-> pl, list_items |-> li, list_type |-> lt,
     in_code_fence |-> fence, code_lines |-> cl, headings |-> hs,
     heading_counts |-> hc, context |-> ctx]

flush_paragraph(st) ==
    IF st.paragraph_lines # <<>>
    THEN With(render_inlines(Join(st.paragraph_lines, <<" ">>), st.context),
              LAMBDA r :
                  [st EXCEPT !.blocks = Append(@, <<Open("p", <<>>, 0)>> \o r.html
                                                     \o <<Close("p")>>),
                             !.paragraph_lines = <<>>,
                             !.context = r.ctx])
    ELSE st

ListItemHtml(parts) ==
    <<Open("li", <<>>, 0)>> \o Join(parts, <<Txt(" ")>>) \o <<Close("li")>>

flush_list(st) ==
    LET tag == IF st.list_type = "unordered" THEN "ul" ELSE "ol"
        items_html == Concat([n \in 1..Len(st.list_items) |->
                                 ListItemHtml(st.list_items[n])])
        emitted == IF st.list_type # "none" /\ st.list_items # <<>>
                   THEN Append(st.blocks,
                               <<Open(tag, <<>>, 0)>> \o items_html \o <<Close(tag)>>)
                   ELSE st.blocks
    IN  [st EXCEPT !.blocks = emitted, !.list_items = <<>>, !.list_type = "none"]

\* the pre/code block of the captured lines, each escaped and nothing else
CodeBlock_Inlined(lines) ==
    <<Open("pre", <<>>, 0), Open("code", <<>>, 0)>>
        \o Join([n \in 1..Len(lines) |-> render_inlines(lines[n], 0).html], <<Txt("\n")>>)
        \o <<Close("code"), Close("pre")>>

CodeBlock(lines) ==
    <<Open("pre", <<>>, 0), Open("code", <<>>, 0)>>
        \o TxtSeq(Join([n \in 1..Len(lines) |-> HtmlEscape(lines[n])], <<"\n">>))
        \o <<Close("code"), Close("pre")>>

flush_code(st) ==
    IF st.code_lines # <<>>
    THEN [st EXCEPT !.blocks = Append(@, CodeBlock(st.code_lines)), !.code_lines = <<>>]
    ELSE st

\* ^([-*+])\s+(.*)$ on the stripped line: whether it matches, and group 2
BulletMatch(stripped) ==
    IF /\ Len(stripped) >= 2
       /\ stripped[1] \in {"-", "*", "+"}
       /\ stripped[2] \in Whitespace
    THEN [ok |-> TRUE, rest |-> LStrip(Tail(stripped))]
    ELSE [ok |-> FALSE, rest |-> <<>>]

\* ^(\d+)[.)]\s+(.*)$ on the stripped line: whether it matches, and group 2
OrderedMatch(stripped) ==
    LET e == RunEnd(stripped, 1, Digits)
    IN  IF /\ e > 1
           /\ e + 1 <= Len(stripped)
           /\ stripped[e] \in {".", ")"}
           /\ stripped[e + 1] \in Whitespace
        THEN [ok |-> TRUE, rest |-> LStrip(SubSeq(stripped, e + 1, Len(stripped)))]
        ELSE [ok |-> FALSE, rest |-> <<>>]

\* ^(#{1,6})\s+(.*)$ on the stripped line: the level and group 2, or level 0
HeadingMatch(stripped) ==
    LET e == RunEnd(stripped, 1, {"#"})
    IN  IF /\ e > 1
           /\ e - 1 <= 6
           /\ e <= Len(stripped)
           /\ stripped[e] \in Whitespace
        THEN [level |-> e - 1, content |-> LStrip(SubSeq(stripped, e, Len(stripped)))]
        ELSE [level |-> 0, content |-> <<>>]

\* the anchor of a heading whose base was seen count times before
HeadingAnchor(anchor_base, count) ==
    IF count = 0 THEN anchor_base ELSE anchor_base \o <<"-">> \o Decimal(count)

HeadingTag(level) == <<"h1", "h2", "h3", "h4", "h5", "h6">>[level]

\* the branch the loop body takes on a line
LineKind(st, raw_line) ==
    LET stripped == Strip(raw_line)
    IN  IF st.in_code_fence
        THEN IF StartsWith(stripped, Fence, 1) THEN "fence_close" ELSE "fence_line"
        ELSE IF StartsWith(stripped, Fence, 1) THEN "fence_open"
        ELSE IF stripped = <<>> THEN "blank"
        ELSE IF BulletMatch(stripped).ok THEN "bullet"
        ELSE IF OrderedMatch(stripped).ok THEN "ordered"
        ELSE IF /\ st.list_type # "none"
                /\ StartsWith(raw_line, <<" ">>, 1)
                /\ st.list_items # <<>> THEN "continuation"
        ELSE IF HeadingMatch(stripped).level # 0 THEN "heading"
        ELSE "paragraph"

\* a bullet or ordered item of the given list kind
AppendItem(st, kind, item_text) ==
    With(render_inlines(item_text, st.context),
         LAMBDA r : [st EXCEPT !.list_type = kind,
                               !.list_items = Append(@, <<r.html>>),
                               !.context = r.ctx])

ListItemStep(st, kind, item_text) ==
    With(flush_paragraph(st),
         LAMBDA s1 :
             IF s1.list_type \notin {"none", kind}
             THEN With(flush_list(s1), LAMBDA s2 : AppendItem(s2, kind, item_text))
             ELSE AppendItem(s1, kind, item_text))

\* the heading of the given level and content, once paragraph and list are flushed
AppendHeading(st, level, content) ==
    LET plain_text == extract_plain_text(content)
        anchor_base == slugify(plain_text)
        count == IF anchor_base \in DOMAIN st.heading_counts
                 THEN st.heading_counts[anchor_base] ELSE 0
        anchor == HeadingAnchor(anchor_base, count)
    IN  With(render_inlines(content, st.context),
             LAMBDA r :
                 [st EXCEPT
                     !.heading_counts = [b \in DOMAIN @ \cup {anchor_base} |->
                                            IF b = anchor_base THEN count + 1 ELSE @[b]],
                     !.blocks = Append(@, <<Open(HeadingTag(level), anchor, 0)>> \o r.html
                                              \o <<Close(HeadingTag(level))>>),
                     !.headings = Append(@, [level |-> level, text |-> plain_text,
                                             anchor |-> anchor]),
                     !.context = r.ctx])

HeadingStep(st, stripped) ==
    With(flush_paragraph(st),
         LAMBDA s1 :
             With(flush_list(s1),
                  LAMBDA s2 : AppendHeading(s2, HeadingMatch(stripped).level,
                                            Strip(HeadingMatch(stripped).content))))

\* the branches of the loop body
FenceCloseStep(st) == flush_code([st EXCEPT !.in_code_fence = FALSE])

FenceLineStep(st, raw_line) == [st EXCEPT !.code_lines = Append(@, raw_line)]

FenceOpenStep(st) ==
    With(flush_paragraph(st),
         LAMBDA s1 : [flush_list(s1) EXCEPT !.in_code_fence = TRUE, !.code_lines = <<>>])

ContinuationStep(st, stripped) ==
    With(render_inlines(stripped, st.context),
         LAMBDA r : [st EXCEPT !.list_items[Len(st.list_items)] = Append(@, r.html),
                               !.context = r.ctx])

ParagraphStep_NoFlush(st, stripped) ==
    [st EXCEPT !.paragraph_lines = Append(@, stripped)]

ParagraphStep(st, stripped) ==
    [(IF st.list_type # "none" THEN flush_list(st) ELSE st)
         EXCEPT !.paragraph_lines = Append(@, stripped)]

\* one iteration of the loop over body.splitlines(), taking the branch kind
LineBranch(st, raw_line, kind) ==
    CASE kind = "fence_close" -> FenceCloseStep(st)
      [] kind = "fence_line" -> FenceLineStep(st, raw_line)
      [] kind = "fence_open" -> FenceOpenStep(st)
      [] kind = "blank" -> flush_paragraph(st)
      [] kind = "bullet" ->
          ListItemStep(st, "unordered", BulletMatch(Strip(raw_line)).rest)
      [] kind = "ordered" ->
          ListItemStep(st, "ordered", OrderedMatch(Strip(raw_line)).rest)
      [] kind = "continuation" -> ContinuationStep(st, Strip(raw_line))
      [] kind = "heading" -> HeadingStep(st, Strip(raw_line))
      [] OTHER -> ParagraphStep(st, Strip(raw_line))

LineStep(st, raw_line) ==
    With(LineKind(st, raw_line), LAMBDA kind : LineBranch(st, raw_line, kind))

\* after the loop: an unclosed fence is flushed as code, then paragraph and list
EndOfBody(st) ==
    With(IF st.in_code_fence THEN flush_code([st EXCEPT !.in_code_fence = FALSE]) ELSE st,
         LAMBDA s1 : With(flush_paragraph(s1), LAMBDA s2 : flush_list(s2)))

EmptyBodyState == BodyState(<<>>, <<>>, <<>>, "none", FALSE, <<>>, <<>>, <<>>, 0)

RECURSIVE RunLines(_, _, _)
RunLines(st, lines, n) ==
    IF n > Len(lines) THEN st
    ELSE With(LineStep(st, lines[n]), LAMBDA next : RunLines(next, lines, n + 1))

\* render_body(body), the body given as its lines: the html and the headings
render_body(lines) ==
    IF lines = <<>> THEN [html |-> <<>>, headings |-> <<>>]
    ELSE With(RunLines(EmptyBodyState, lines, 1),
              LAMBDA last :
                  With(EndOfBody(last),
                       LAMBDA st : [html |-> Join(st.blocks, <<Txt("\n")>>),
                                    headings |-> st.headings]))

(***************************************************************************)
(* parse_post and load_posts: file names, dates and the order of the posts *)
(***************************************************************************)
DigitSeq == <<"0", "1", "2", "3", "4", "5", "6", "7", "8", "9">>

\* the characters of the file names, in code-point order
CodePoints == <<"-", ".", "/">> \o DigitSeq \o LowerSeq

Ord(c) == CHOOSE n \in DOMAIN CodePoints : CodePoints[n] = c

\* s < t for two strings
RECURSIVE StrLess(_, _)
StrLess(s, t) ==
    IF t = <<>> THEN FALSE
    ELSE IF s = <<>> THEN TRUE
    ELSE IF Head(s) = Head(t) THEN StrLess(Tail(s), Tail(t))
    ELSE Ord(Head(s)) < Ord(Head(t))

EndsWith(s, suffix) ==
    /\ Len(s) >= Len(suffix)
    /\ SubSeq(s, Len(s) - Len(suffix) + 1, Len(s)) = suffix

DotTxt == <<".", "t", "x", "t">>
DotMd == <<".", "m", "d">>
DotHtml == <<".", "h", "t", "m", "l">>

\* sorted(POSTS_DIR.glob("*.txt")): the files named *.txt, by name
RECURSIVE SortedByName(_)
SortedByName(files) ==
    IF files = {} THEN <<>>
    ELSE LET least == CHOOSE f \in files :
                          \A g \in files \ {f} : StrLess(f.name, g.name)
         IN  <<least>> \o SortedByName(files \ {least})

GlobTxt(files) == SortedByName({f \in files : EndsWith(f.name, DotTxt)})

\* POST_FILENAME.match(name): \d{4}-\d{2}-\d{2}-(.+)\.(txt|md)$ and its groups
POST_FILENAME(name) ==
    LET ext == IF EndsWith(name, DotTxt) THEN "txt"
               ELSE IF EndsWith(name, DotMd) THEN "md" ELSE "none"
        stem == IF ext = "txt" THEN Len(name) - 4 ELSE Len(name) - 3
        ok == /\ ext # "none"
              /\ stem >= 12
              /\ \A n \in {1, 2, 3, 4, 6, 7, 9, 10} : name[n] \in Digits
              /\ \A n \in {5, 8, 11} : name[n] = "-"
    IN  [ok |-> ok,
         date |-> IF ok THEN SubSeq(name, 1, 10) ELSE <<>>,
         slug |-> IF ok THEN SubSeq(name, 12, stem) ELSE <<>>,
         ext |-> ext]

DigitValue(c) == (CHOOSE n \in DOMAIN DigitSeq : DigitSeq[n] = c) - 1

RECURSIVE Number(_)
Number(digits) ==
    IF digits = <<>> THEN 0
    ELSE 10 * Number(SubSeq(digits, 1, Len(digits) - 1)) + DigitValue(digits[Len(digits)])

IsLeap(year) == (year % 4 = 0 /\ year % 100 # 0) \/ year % 400 = 0

DaysInMonth(year, month) ==
    IF month = 2 THEN (IF IsLeap(year) THEN 29 ELSE 28)
    ELSE IF month \in {4, 6, 9, 11} THEN 30 ELSE 31

\* datetime.strptime(date_str, "%Y-%m-%d").date(): a ValueError is ok = FALSE
Strptime(date_str) ==
    LET year == Number(SubSeq(date_str, 1, 4))
        month == Number(SubSeq(date_str, 6, 7))
        day == Number(SubSeq(date_str, 9, 10))
        ok == /\ year >= 1
              /\ month \in 1..12
              /\ day \in 1..DaysInMonth(year, month)
    IN  [ok |-> ok, date |-> IF ok THEN <<year, month, day>> ELSE <<0, 0, 0>>]

\* a < b for two dates
DateLess(a, b) ==
    \/ a[1] < b[1]
    \/ a[1] = b[1] /\ a[2] < b[2]
    \/ a[1] = b[1] /\ a[2] = b[2] /\ a[3] < b[3]

NoPost == [date |-> <<0, 0, 0>>, slug |-> <<>>]

\* parse_post(path): the Post of the file, or None (ok = FALSE); a file is
\* its name and whether its text is blank
parse_post(file) ==
    LET match == POST_FILENAME(file.name)
        parsed == Strptime(match.date)
    IN  IF ~match.ok THEN [ok |-> FALSE, post |-> NoPost]
        ELSE IF ~parsed.ok THEN [ok |-> FALSE, post |-> NoPost]
        ELSE IF file.raw = "blank" THEN [ok |-> FALSE, post |-> NoPost]
        ELSE [ok |-> TRUE, post |-> [date |-> parsed.date, slug |-> match.slug]]

\* posts.sort(key=date, reverse=True): whether a post goes before another
\* that precedes it in the list
SortsBefore_OrEqual(post, other) == ~DateLess(post.date, other.date)

SortsBefore(post, other) == DateLess(other.date, post.date)

RECURSIVE InsertByDate(_, _)
InsertByDate(sorted, post) ==
    IF sorted = <<>> THEN <<post>>
    ELSE IF SortsBefore(post, Head(sorted)) THEN <<post>> \o sorted
    ELSE <<Head(sorted)>> \o InsertByDate(Tail(sorted), post)

RECURSIVE SortByDate(_)
SortByDate(list) ==
    IF list = <<>> THEN <<>>
    ELSE InsertByDate(SortByDate(SubSeq(list, 1, Len(list) - 1)), list[Len(list)])

\* Post.filename
Filename(post) == post.slug \o DotHtml

(***************************************************************************)
(* build and clean_output_dir: the output directory                        *)
(***************************************************************************)
IndexHtml == <<"i", "n", "d", "e", "x", ".", "h", "t", "m", "l">>
AboutHtml == <<"a", "b", "o", "u", "t", ".", "h", "t", "m", "l">>
ArchiveHtml == <<"a", "r", "c", "h", "i", "v", "e", ".", "h", "t", "m", "l">>

\* what a file of the output directory holds: a page of this run, the text
\* of an earlier run ("stale"), or the remains of a failed write ("partial")
Page(kind) == [page |-> kind, post |-> NoPost]
PostPage(post) == [page |-> "post", post |-> post]

NoFiles == [n \in {} |-> Page("stale")]

\* path.write_text(content) on OUTPUT_DIR / name
write_file(dir, name, content) ==
    [dir EXCEPT !.files = [n \in DOMAIN @ \cup {name} |->
                              IF n = name THEN content ELSE @[n]]]

\* path.unlink() on OUTPUT_DIR / rel
Unlink(dir, rel) == [dir EXCEPT !.files = [n \in DOMAIN @ \ {rel} |-> @[n]]]

\* the directory of OUTPUT_DIR a relative path lies in: <<>> is OUTPUT_DIR
DirOf(rel) ==
    IF \E n \in DOMAIN rel : rel[n] = "/"
    THEN SubSeq(rel, 1, (CHOOSE n \in DOMAIN rel :
                             rel[n] = "/" /\ \A m \in n + 1..Len(rel) : rel[m] # "/") - 1)
    ELSE <<>>

\* the second loop of clean_output_dir: the empty directories are removed
RemoveEmptyDirs(dir) ==
    [dir EXCEPT !.dirs = {d \in @ : \E n \in DOMAIN dir.files : DirOf(n) = d}]

BuildIdle ==
    /\ posts_dir = [exists |-> FALSE, files |-> {}]
    /\ output_dir = [exists |-> FALSE, files |-> NoFiles, dirs |-> {}]
    /\ paths = <<>>
    /\ posts = <<>>
    /\ keep_files = {}
    /\ post_no = 1
    /\ pending = {}
    /\ unlinked = {}
    /\ build_pc = "idle"

(***************************************************************************)
(* One top-level render_inlines call, one loop iteration per step          *)
(***************************************************************************)
MaxPieces == 4

\* the texts made of at most n pieces of a set
RECURSIVE TextsOf(_, _)
TextsOf(pieces, n) ==
    IF n = 0 THEN {<<>>}
    ELSE LET shorter == TextsOf(pieces, n - 1)
         IN  shorter \cup {x \o piece : x \in shorter, piece \in pieces}

EmphasisPieces == {StarStar, Star, Backtick, <<"a">>, <<"<">>, <<" ">>}
GlossaryPieces == {ParenParen, CloseParenParen, ColonColon, <<"a">>, <<" ">>, Star,
                   <<"(", "(", "a", ":", ":", "b", ")", ")">>}
LinkPieces == {<<"[">>, <<"]", "(">>, <<")">>, <<"a">>, <<"u", ":", "/", "/", "v">>, <<"\"">>}
AutolinkPieces == {<<"a">>, <<":", "/", "/">>, <<"&">>, <<" ">>, <<"<">>, <<"1">>}
MixedPieces == {StarStar, <<"[">>, <<"]", "(", "u", ")">>, <<"(", "(", "a", ":", ":">>,
                CloseParenParen, <<"h", ":", "/", "/", "&">>}

\* the inline examples of the specification's testable properties
ExampleUnterminated ==
    <<"H", "e", "l", "l", "o", " ", "*", "*", "w", "o", "r", "l", "d">>

ExampleNoSeparator ==
    <<"(", "(", "N", "o", "S", "e", "p", "a", "r", "a", "t", "o", "r", "H",
      "e", "r", "e", ")", ")">>

ExampleOnlyDefinition ==
    <<"(", "(", ":", ":", "O", "n", "l", "y", "D", "e", "f", "i", "n", "i",
      "t", "i", "o", "n", ")", ")">>

ExampleLink ==
    <<"[", "t", "e", "x", "t", "]", "(", "h", "t", "t", "p", ":", "/", "/",
      "e", "x", "a", "m", "p", "l", "e", ".", "c", "o", "m", ")">>

ExampleTexts ==
    {ExampleUnterminated, ExampleNoSeparator, ExampleOnlyDefinition, ExampleLink}

InlineTexts ==
    ExampleTexts \cup
    TextsOf(EmphasisPieces, MaxPieces) \cup TextsOf(GlossaryPieces, MaxPieces)
        \cup TextsOf(LinkPieces, MaxPieces) \cup TextsOf(AutolinkPieces, MaxPieces)
        \cup TextsOf(MixedPieces, MaxPieces)

\* no render_body call is in progress
BodyIdle ==
    /\ body = <<>>
    /\ line_no = 1
    /\ blocks = <<>>
    /\ paragraph_lines = <<>>
    /\ list_items = <<>>
    /\ list_type = "none"
    /\ in_code_fence = FALSE
    /\ code_lines = <<>>
    /\ headings = <<>>
    /\ heading_counts = <<>>
    /\ context = 0
    /\ html = <<>>
    /\ body_pc = "idle"
    /\ call_no = 0
    /\ repeat = FALSE
    /\ prev_html = <<>>

Cur == ScanState(text, i, plain_buffer, segments, popover_index)

\* the loop body is entered and takes the given branch
AtRule(rule) == pc = "scan" /\ i <= Len(text) /\ RuleAt(text, i) = rule

\* the loop body's assignments
Iterate ==
    \E st \in {ScanStep(Cur)} :
        /\ i' = st.i
        /\ plain_buffer' = st.plain_buffer
        /\ segments' = st.segments
        /\ popover_index' = st.popover_index

ScanStrong ==
    /\ AtRule("strong")
    /\ Iterate
    /\ UNCHANGED <<text, pc, bodyVars, buildVars>>

ScanEm ==
    /\ AtRule("em")
    /\ Iterate
    /\ UNCHANGED <<text, pc, bodyVars, buildVars>>

ScanCode ==
    /\ AtRule("code")
    /\ Iterate
    /\ UNCHANGED <<text, pc, bodyVars, buildVars>>

ScanGlossary ==
    /\ AtRule("glossary")
    /\ Iterate
    /\ UNCHANGED <<text, pc, bodyVars, buildVars>>

ScanLink ==
    /\ AtRule("link")
    /\ Iterate
    /\ UNCHANGED <<text, pc, bodyVars, buildVars>>

ScanPlain ==
    /\ AtRule("plain")
    /\ Iterate
    /\ UNCHANGED <<text, pc, bodyVars, buildVars>>

\* the end of the loop: the last flush_plain and the join of the segments
ScanReturn ==
    /\ pc = "scan"
    /\ i > Len(text)
    /\ segments' = FlushPlain(plain_buffer, segments)
    /\ plain_buffer' = <<>>
    /\ pc' = "done"
    /\ UNCHANGED <<text, i, popover_index, bodyVars, buildVars>>

InitInline ==
    /\ text \in InlineTexts
    /\ i = 1
    /\ plain_buffer = <<>>
    /\ segments = <<>>
    /\ popover_index = 0
    /\ pc = "scan"
    /\ BodyIdle
    /\ BuildIdle

NextInline ==
    \/ ScanStrong
    \/ ScanEm
    \/ ScanCode
    \/ ScanGlossary
    \/ ScanLink
    \/ ScanPlain
    \/ ScanReturn

SpecInline == InitInline /\ [][NextInline]_vars

(***************************************************************************)
(* Properties of render_inlines                                            *)
(***************************************************************************)
\* the characters of the text tokens, in order (the tags stripped)
VisibleText(toks) ==
    LET txt == SelectSeq(toks, LAMBDA tok : tok.k = "txt")
    IN  [n \in 1..Len(txt) |-> txt[n].tag]

IsAnchor(tok) == tok.k = "open" /\ tok.tag = "a"
AnchorCount(toks) == Len(SelectSeq(toks, IsAnchor))
TagCount(toks) == Len(SelectSeq(toks, LAMBDA tok : tok.k # "txt"))

\* the text holds one ** and no other character that could start a span
UnterminatedStrongOnly(t) ==
    \E q \in 1..(Len(t) - 1) :
        /\ StartsWith(t, StarStar, q)
        /\ \A r \in (1..Len(t)) \ {q, q + 1} :
               t[r] \in LowerLetters \cup UpperLetters \cup {" "}

\* C2: a ** with no closing ** is emitted as two literal asterisks, with no
\* tag and no character dropped: the output is the text itself.
C2_UnterminatedStrongIsLiteral ==
    (pc = "done" /\ UnterminatedStrongOnly(text)) => segments = TxtSeq(text)

\* tags close in the reverse order they were opened: the stack of open tags
\* after the tokens, or <<"bad">> at a closing tag that does not match, a raw
\* "<" in a text run or a raw quote in an attribute value
RECURSIVE OpenTags(_, _)
OpenTags(toks, stack) ==
    IF toks = <<>> THEN stack
    ELSE LET tok == Head(toks)
         IN  CASE tok.k = "txt" ->
                   IF tok.tag = "<" THEN <<"bad">> ELSE OpenTags(Tail(toks), stack)
               [] tok.k = "open" ->
                   IF \E n \in DOMAIN tok.attr : tok.attr[n] \in {"\"", "<"}
                   THEN <<"bad">>
                   ELSE OpenTags(Tail(toks), <<tok.tag>> \o stack)
               [] OTHER ->
                   IF stack # <<>> /\ Head(stack) = tok.tag
                   THEN OpenTags(Tail(toks), Tail(stack))
                   ELSE <<"bad">>

WellNested(toks) == OpenTags(toks, <<>>) = <<>>

\* the deepest nesting of open tags in a well-nested token sequence
RECURSIVE DepthFrom(_, _, _)
DepthFrom(toks, cur, best) ==
    IF toks = <<>> THEN best
    ELSE LET tok == Head(toks)
             nxt == IF tok.k = "open" THEN cur + 1
                    ELSE IF tok.k = "close" THEN cur - 1 ELSE cur
         IN  DepthFrom(Tail(toks), nxt, IF nxt > best THEN nxt ELSE best)

NestingDepth(toks) == DepthFrom(toks, 0, 0)

\* C3: the output of render_inlines is well nested: every tag opened is
\* closed, in reverse order of opening, at every recursion depth.
C3_OutputWellNested == WellNested(segments)

\* a popover whose definition holds an autolink has been rendered
C3_Witness ==
    /\ pc = "done"
    /\ NestingDepth(segments) >= 4
    /\ \E n \in DOMAIN segments : segments[n].k = "open" /\ segments[n].tag = "aside"
    /\ \E n \in DOMAIN segments : IsAnchor(segments[n])

\* the text has no span delimiter: the whole of it is one plain run
PlainOnly(t) ==
    \A n \in DOMAIN t : t[n] \notin {"*", BackquoteChar, "(", "["}

\* C4: a plain run is escaped exactly once: the visible text of the output is
\* the once-escaped text, also inside an autolinked URL, and every href is the
\* anchor's visible text.
C4_EscapedOnce ==
    (pc = "done" /\ PlainOnly(text)) =>
        /\ VisibleText(segments) = HtmlEscape(text)
        /\ \A n \in DOMAIN segments :
               IsAnchor(segments[n]) =>
                   \E m \in 1..Len(HtmlEscape(text)) :
                       StartsWith(HtmlEscape(text), segments[n].attr, m)

\* a (( with a closing )) at p whose content has no ::, or an empty term or
\* definition after trimming
FailedGlossaryAt(t, p) ==
    /\ StartsWith(t, ParenParen, p)
    /\ \E e \in (p + 2)..Len(t) :
           /\ StartsWith(t, CloseParenParen, e)
           /\ \A d \in (p + 2)..(e - 1) : ~StartsWith(t, CloseParenParen, d)
           /\ LET content == SubSeq(t, p + 2, e - 1)
                  seps == {q \in 1..Len(content) : StartsWith(content, ColonColon, q)}
              IN  \/ seps = {}
                  \/ LET q == CHOOSE q \in seps : \A r \in seps : q <= r
                     IN  \/ \A n \in 1..(q - 1) : content[n] \in Whitespace
                         \/ \A n \in (q + 2)..Len(content) : content[n] \in Whitespace

\* C7: a ((...)) span without ::, or with an empty term or definition, makes no
\* popover and takes no popover id; its first ( is emitted as literal text and
\* the scan resumes at the next character; the two examples render as
\* themselves.
C7_GlossaryFallback ==
    [][/\ (pc = "scan" /\ FailedGlossaryAt(text, i)) =>
              /\ plain_buffer' = Append(plain_buffer, "(")
              /\ i' = i + 1
              /\ segments' = segments
              /\ popover_index' = popover_index
       /\ (pc' = "done" /\ text' \in {ExampleNoSeparator, ExampleOnlyDefinition}) =>
              /\ segments' = TxtSeq(text')
              /\ popover_index' = 0]_vars

\* after a popover was made, both parentheses of a failed span were emitted
\* as text and no second id was taken
C7_Witness ==
    /\ pc = "scan"
    /\ i >= 3
    /\ FailedGlossaryAt(text, i - 2)
    /\ plain_buffer = ParenParen
    /\ popover_index = 1

\* the text is one explicit link [label](url)
WholeLink(t) ==
    /\ Len(t) >= 4
    /\ t[1] = "["
    /\ t[Len(t)] = ")"
    /\ \E cb \in 2..(Len(t) - 2) :
           /\ t[cb] = "]"
           /\ t[cb + 1] = "("
           /\ \A n \in 2..(cb - 1) : t[n] # "]"
           /\ \A n \in (cb + 2)..(Len(t) - 1) : t[n] # ")"

\* C9: an explicit link [label](url) renders to exactly one anchor tag, for
\* every label and url.
C9_ExactlyOneAnchor ==
    (pc = "done" /\ WholeLink(text)) => AnchorCount(segments) = 1

(***************************************************************************)
(* render_body calls, one line of the body per step                        *)
(***************************************************************************)
MaxLines == 3
MaxCalls == 2

LineNotes == <<"#", "#", " ", "N", "o", "t", "e", "s">>
LineNotes1 == <<"#", "#", " ", "N", "o", "t", "e", "s", " ", "1">>
LineNotesH1 == <<"#", " ", "N", "o", "t", "e", "s">>
LineNotesEm == <<"#", "#", " ", "*", "N", "o", "t", "e", "s", "*">>
LineBlank == <<>>
LineText == <<"t", "e", "x", "t">>
LineFence == <<BackquoteChar, BackquoteChar, BackquoteChar>>
LineFencePy == <<BackquoteChar, BackquoteChar, BackquoteChar, "p", "y">>
LineNotBold == <<"*", "*", "n", "o", "t", " ", "b", "o", "l", "d", "*", "*">>
LineTag == <<"<", "b", ">">>
LineBullet == <<"-", " ", "a">>
LineIndentedCode == <<" ", " ", "x">>
LineOrdered == <<"1", ".", " ", "b">>
LineIndented == <<" ", "c">>
LineTabbed == <<"\t", "c">>
LineIndentedHeading == <<" ", "#", " ", "h">>
LineGlossary == <<"(", "(", "a", ":", ":", "b", ")", ")">>
LineGlossaryHeading == <<"#", " ", "(", "(", "a", ":", ":", "b", ")", ")">>
LineGlossaryBullet == <<"-", " ", "(", "(", "a", ":", ":", "b", ")", ")">>
LineGlossaryStrong == <<"*", "*", "(", "(", "c", ":", ":", "d", ")", ")", "*", "*",
      " ", "(", "(", "a", ":", ":", "b", ")", ")">>

HeadingLines == {LineNotes, LineNotes1, LineNotesH1, LineNotesEm, LineBlank, LineText}
FenceLines == {LineFence, LineFencePy, LineNotBold, LineTag, LineBlank, LineBullet,
               LineIndentedCode}
ListLines == {LineBullet, LineOrdered, LineIndented, LineTabbed, LineBlank, LineText,
              LineIndentedHeading}
GlossaryLines == {LineGlossary, LineGlossaryHeading, LineGlossaryBullet,
                  LineGlossaryStrong, LineBlank, LineFence}

\* the bodies of at most n lines of a set
RECURSIVE BodiesOf(_, _)
BodiesOf(lines, n) ==
    IF n = 0 THEN {<<>>}
    ELSE LET shorter == BodiesOf(lines, n - 1)
         IN  shorter \cup {Append(b, line) : b \in shorter, line \in lines}

\* a body is a string and its lines are body.splitlines(): the last line of
\* a body is not empty
IsBody(b) == b = <<>> \/ b[Len(b)] # <<>>

Bodies ==
    {b \in BodiesOf(HeadingLines, MaxLines) \cup BodiesOf(FenceLines, MaxLines)
            \cup BodiesOf(ListLines, MaxLines) \cup BodiesOf(GlossaryLines, MaxLines) :
        IsBody(b)}

\* the bodies a later call renders, besides the body of the call before it
FollowBodies == {<<>>, <<LineGlossary>>, <<LineNotes, LineGlossaryHeading>>}

\* context = RenderContext(): popover_index = 0
RenderContext_Shared == context

RenderContext == 0

BodyCur ==
    BodyState(blocks, paragraph_lines, list_items, list_type, in_code_fence,
              code_lines, headings, heading_counts, context)

SetBody(st) ==
    /\ blocks' = st.blocks
    /\ paragraph_lines' = st.paragraph_lines
    /\ list_items' = st.list_items
    /\ list_type' = st.list_type
    /\ in_code_fence' = st.in_code_fence
    /\ code_lines' = st.code_lines
    /\ headings' = st.headings
    /\ heading_counts' = st.heading_counts
    /\ context' = st.context

\* the loop body is entered and takes the given branch
AtLine(kind) ==
    /\ body_pc = "lines"
    /\ line_no <= Len(body)
    /\ LineKind(BodyCur, body[line_no]) = kind

\* the loop body's assignments, the locals becoming st
Advance(st) ==
    /\ SetBody(st)
    /\ line_no' = line_no + 1
    /\ UNCHANGED <<body, html, body_pc, callVars, inlineVars, buildVars>>

FenceClose ==
    /\ AtLine("fence_close")
    /\ \E st \in {FenceCloseStep(BodyCur)} : Advance(st)

FenceLine ==
    /\ AtLine("fence_line")
    /\ \E st \in {FenceLineStep(BodyCur, body[line_no])} : Advance(st)

FenceOpen ==
    /\ AtLine("fence_open")
    /\ \E st \in {FenceOpenStep(BodyCur)} : Advance(st)

BlankLine ==
    /\ AtLine("blank")
    /\ \E st \in {flush_paragraph(BodyCur)} : Advance(st)

BulletLine ==
    /\ AtLine("bullet")
    /\ \E st \in {ListItemStep(BodyCur, "unordered",
                               BulletMatch(Strip(body[line_no])).rest)} : Advance(st)

OrderedLine ==
    /\ AtLine("ordered")
    /\ \E st \in {ListItemStep(BodyCur, "ordered",
                               OrderedMatch(Strip(body[line_no])).rest)} : Advance(st)

ContinuationLine ==
    /\ AtLine("continuation")
    /\ \E st \in {ContinuationStep(BodyCur, Strip(body[line_no]))} : Advance(st)

HeadingLine ==
    /\ AtLine("heading")
    /\ \E st \in {HeadingStep(BodyCur, Strip(body[line_no]))} : Advance(st)

ParagraphLine ==
    /\ AtLine("paragraph")
    /\ \E st \in {ParagraphStep(BodyCur, Strip(body[line_no]))} : Advance(st)

\* after the last line: the final flushes and the join of the blocks
BodyReturn ==
    /\ body_pc = "lines"
    /\ line_no > Len(body)
    /\ \E st \in {EndOfBody(BodyCur)} :
           /\ SetBody(st)
           /\ html' = Join(st.blocks, <<Txt("\n")>>)
    /\ body_pc' = "done"
    /\ UNCHANGED <<body, line_no, callVars, inlineVars, buildVars>>

\* render_body is entered with a body: an empty body returns at once
EnterBody(b) ==
    /\ body = b
    /\ line_no = 1
    /\ blocks = <<>>
    /\ paragraph_lines = <<>>
    /\ list_items = <<>>
    /\ list_type = "none"
    /\ in_code_fence = FALSE
    /\ code_lines = <<>>
    /\ headings = <<>>
    /\ heading_counts = <<>>
    /\ context = 0
    /\ html = <<>>
    /\ body_pc = IF b = <<>> THEN "done" ELSE "lines"

\* render_body is called again, with the same body or another one
RenderAgain ==
    /\ body_pc = "done"
    /\ call_no < MaxCalls
    /\ \E b \in FollowBodies \cup {body} :
           /\ body' = b
           /\ body_pc' = IF b = <<>> THEN "done" ELSE "lines"
    /\ line_no' = 1
    /\ blocks' = <<>>
    /\ paragraph_lines' = <<>>
    /\ list_items' = <<>>
    /\ list_type' = "none"
    /\ in_code_fence' = FALSE
    /\ code_lines' = <<>>
    /\ headings' = <<>>
    /\ heading_counts' = <<>>
    /\ context' = RenderContext
    /\ html' = <<>>
    /\ call_no' = call_no + 1
    /\ repeat' = (body' = body)
    /\ prev_html' = html
    /\ UNCHANGED <<inlineVars, buildVars>>

InlineIdle ==
    /\ text = <<>>
    /\ i = 1
    /\ plain_buffer = <<>>
    /\ segments = <<>>
    /\ popover_index = 0
    /\ pc = "idle"

InitBody ==
    /\ \E b \in Bodies : EnterBody(b)
    /\ call_no = 1
    /\ repeat = FALSE
    /\ prev_html = <<>>
    /\ InlineIdle
    /\ BuildIdle

NextBody ==
    \/ FenceClose
    \/ FenceLine
    \/ FenceOpen
    \/ BlankLine
    \/ BulletLine
    \/ OrderedLine
    \/ ContinuationLine
    \/ HeadingLine
    \/ ParagraphLine
    \/ BodyReturn
    \/ RenderAgain

SpecBody == InitBody /\ [][NextBody]_vars

(***************************************************************************)
(* Properties of render_body                                               *)
(***************************************************************************)
IsHeadingBlock(block) ==
    /\ block # <<>>
    /\ block[1].k = "open"
    /\ block[1].tag \in {"h1", "h2", "h3", "h4", "h5", "h6"}

\* the id attributes of the heading tags emitted so far, in document order
HeadingIds ==
    LET hs == SelectSeq(blocks, IsHeadingBlock)
    IN  [n \in 1..Len(hs) |-> hs[n][1].attr]

Distinct(seq) == \A a, b \in 1..Len(seq) : a # b => seq[a] # seq[b]

\* C1: after any sequence of heading lines, no two entries of the heading
\* list carry the same anchor and no two emitted heading tags carry the same
\* id attribute.
C1_AnchorsDistinct ==
    /\ Distinct([n \in 1..Len(headings) |-> headings[n].anchor])
    /\ Distinct(HeadingIds)

\* the block is a pre/code element holding nothing but the escaped lines
IsVerbatimCodeBlock(block, lines) ==
    /\ Len(block) >= 4
    /\ block[1] = Open("pre", <<>>, 0)
    /\ block[2] = Open("code", <<>>, 0)
    /\ block[Len(block) - 1] = Close("code")
    /\ block[Len(block)] = Close("pre")
    /\ \A n \in 3..(Len(block) - 2) : block[n].k = "txt"
    /\ VisibleText(block)
           = Join([n \in 1..Len(lines) |-> HtmlEscape(lines[n])], <<"\n">>)

\* inside a fence, a line that does not end it is accumulated unchanged and
\* nothing is emitted
FenceAccumulates ==
    (in_code_fence /\ in_code_fence')
        => /\ code_lines' = Append(code_lines, body[line_no])
           /\ blocks' = blocks

\* at the end of a fence, by a closing fence or by the end of the input, the
\* accumulated lines are emitted as one verbatim block
FenceEmitsVerbatim ==
    (in_code_fence /\ ~in_code_fence' /\ code_lines # <<>>)
        => /\ Len(blocks') = Len(blocks) + 1
           /\ SubSeq(blocks', 1, Len(blocks)) = blocks
           /\ IsVerbatimCodeBlock(blocks'[Len(blocks')], code_lines)

FencedNotBold ==
    (body_pc = "done" /\ body \in {<<LineFence, LineNotBold>>,
                                   <<LineFence, LineNotBold, LineFence>>})
        => /\ VisibleText(html) = LineNotBold
           /\ TagCount(html) = 4

\* C8: every line accumulated between an opening fence and its end (closing
\* fence or end of input) is emitted inside the pre/code block HTML-escaped
\* and otherwise unchanged, with no inline markup; a fenced **not bold**
\* outputs the literal **not bold**.
C8_FenceContentVerbatim ==
    /\ []FencedNotBold
    /\ [][FenceAccumulates /\ FenceEmitsVerbatim]_vars

\* an unterminated fence holding **not bold** and a tag has been flushed at
\* the end of the input
C8_Witness ==
    /\ body_pc = "done"
    /\ body = <<LineFence, LineNotBold, LineTag>>
    /\ Len(blocks) = 1
    /\ IsVerbatimCodeBlock(blocks[1], <<LineNotBold, LineTag>>)
    /\ html = blocks[1]

\* the ids of the popover asides, and of the buttons opening them, in
\* document order
AsideIds(toks) ==
    LET asides == SelectSeq(toks, LAMBDA tok : tok.k = "open" /\ tok.tag = "aside")
    IN  [n \in 1..Len(asides) |-> asides[n].id]

ButtonIds(toks) ==
    LET buttons == SelectSeq(toks, LAMBDA tok : tok.k = "open" /\ tok.tag = "button")
    IN  [n \in 1..Len(buttons) |-> buttons[n].id]

\* C10: in any sequence of render_body calls, each call numbers its
\* popovers from 1 independently of earlier calls, the popover ids within
\* one call's output are pairwise distinct, and rendering the same body
\* twice yields identical HTML.
C10_CounterScopedToCall ==
    body_pc = "done" =>
        /\ Distinct(AsideIds(html))
        /\ {AsideIds(html)[n] : n \in 1..Len(AsideIds(html))} = 1..Len(AsideIds(html))
        /\ ButtonIds(html) = AsideIds(html)
        /\ context = Len(AsideIds(html))
        /\ repeat => html = prev_html

\* a body with two popovers has been rendered a second time
C10_Witness ==
    /\ body_pc = "done"
    /\ call_no = 2
    /\ repeat
    /\ AsideIds(prev_html) = <<1, 2>>
    /\ AsideIds(html) = <<1, 2>>

\* the text without its whitespace: two texts are equal modulo whitespace
\* when these are equal
Squeeze(s) == SelectSeq(s, LAMBDA c : c \notin Whitespace \cup {"\n"})

\* the text with every occurrence of a delimiter removed, left to right
RECURSIVE RemoveAll(_, _)
RemoveAll(s, pat) ==
    IF Find(s, pat, 1) = 0 THEN s
    ELSE SubSeq(s, 1, Find(s, pat, 1) - 1)
             \o RemoveAll(SubSeq(s, Find(s, pat, 1) + Len(pat), Len(s)), pat)

\* a line's text without the inline delimiters ** * (the backquote) (( :: ))
DropInline(s) ==
    RemoveAll(RemoveAll(RemoveAll(RemoveAll(RemoveAll(s, Star), Backtick),
                                  ParenParen), CloseParenParen), ColonColon)

\* the text a line contributes once its block marker and its inline
\* delimiters are removed: a fence marker contributes nothing, a fenced line
\* all of itself
PlainLine(kind, raw_line) ==
    CASE kind \in {"fence_open", "fence_close", "blank"} -> <<>>
      [] kind = "fence_line" -> raw_line
      [] kind = "bullet" -> DropInline(BulletMatch(Strip(raw_line)).rest)
      [] kind = "ordered" -> DropInline(OrderedMatch(Strip(raw_line)).rest)
      [] kind = "heading" -> DropInline(HeadingMatch(Strip(raw_line)).content)
      [] OTHER -> DropInline(Strip(raw_line))

\* the raw body with its markup delimiters removed
RECURSIVE PlainFrom(_, _, _)
PlainFrom(st, lines, n) ==
    IF n > Len(lines) THEN <<>>
    ELSE PlainLine(LineKind(st, lines[n]), lines[n])
             \o PlainFrom(LineStep(st, lines[n]), lines, n + 1)

PlainBody(lines) == PlainFrom(EmptyBodyState, lines, 1)

\* html.unescape of the text left when the tags are stripped
RECURSIVE Unescape(_)
Unescape(s) ==
    IF s = <<>> THEN <<>>
    ELSE LET hit == {c \in {"&", "<", ">", "\"", "'"} :
                        StartsWith(s, HtmlEscapeChar(c), 1)}
         IN  IF hit # {}
             THEN LET c == CHOOSE x \in hit : TRUE
                  IN  <<c>> \o Unescape(SubSeq(s, Len(HtmlEscapeChar(c)) + 1, Len(s)))
             ELSE <<Head(s)>> \o Unescape(Tail(s))

\* C11: stripping the tags from render_body's output gives, modulo
\* whitespace, the raw body with its markup delimiters removed: no text of
\* the body is lost and none is emitted more than once.
C11_RoundTrip ==
    body_pc = "done" => Squeeze(Unescape(VisibleText(html))) = Squeeze(PlainBody(body))

\* the line consists of three backquotes optionally followed by whitespace
IsClosingFence(line) == RStrip(line) = Fence

\* C12: inside a code fence, the fence is ended only by a line consisting of
\* three backquotes optionally followed by whitespace; every other line,
\* also one that begins with three backquotes followed by other text, is
\* appended verbatim to the code buffer.
C12_OnlyBareFenceCloses ==
    [][(body_pc = "lines" /\ in_code_fence /\ line_no <= Len(body)
            /\ line_no' = line_no + 1)
         => IF IsClosingFence(body[line_no])
            THEN ~in_code_fence'
            ELSE /\ in_code_fence'
                 /\ code_lines' = Append(code_lines, body[line_no])]_vars

\* the pending buffers that hold something
PendingBuffers ==
    {b \in {"paragraph", "list", "code"} :
        \/ b = "paragraph" /\ paragraph_lines # <<>>
        \/ b = "list" /\ (list_type # "none" \/ list_items # <<>>)
        \/ b = "code" /\ (in_code_fence \/ code_lines # <<>>)}

\* the blocks emitted so far stay, in their order
BlocksOnlyGrow ==
    body_pc = "lines" =>
        /\ Len(blocks') >= Len(blocks)
        /\ SubSeq(blocks', 1, Len(blocks)) = blocks

\* the flushes at the end of the body emit at most one block
FinalFlushEmitsOne ==
    (body_pc = "lines" /\ body_pc' = "done") => Len(blocks') <= Len(blocks) + 1

\* C13: after any prefix of the body's lines, at most one of the paragraph
\* buffer, the list in progress and the code fence holds something; the
\* blocks are emitted in document order and the final flushes of paragraph
\* and list cannot reorder content.
C13_BuffersExclusive ==
    /\ [](Cardinality(PendingBuffers) <= 1)
    /\ [][BlocksOnlyGrow /\ FinalFlushEmitsOne]_vars

\* a paragraph line has followed a list: the list has been emitted and only
\* the paragraph is pending
C13_Witness ==
    /\ body_pc = "lines"
    /\ PendingBuffers = {"paragraph"}
    /\ Len(blocks) = 1
    /\ blocks[1][1].tag \in {"ul", "ol"}

\* a non-blank line that is not a fence, a bullet or an ordered-marker line
ProseLine(raw_line) ==
    /\ Strip(raw_line) # <<>>
    /\ ~StartsWith(Strip(raw_line), Fence, 1)
    /\ ~BulletMatch(Strip(raw_line)).ok
    /\ ~OrderedMatch(Strip(raw_line)).ok

\* the last list item has one fragment more and the list stays open
ItemContinued ==
    /\ Len(list_items') = Len(list_items)
    /\ \A n \in 1..(Len(list_items) - 1) : list_items'[n] = list_items[n]
    /\ Len(list_items'[Len(list_items)]) = Len(list_items[Len(list_items)]) + 1
    /\ list_type' = list_type
    /\ blocks' = blocks

\* the list has been emitted and is no longer in progress
ListClosed ==
    /\ list_items' = <<>>
    /\ list_type' = "none"
    /\ Len(blocks') > Len(blocks)

\* C14: while a list item exists, a non-blank line that starts with a space
\* or a tab and is not a fence, bullet or ordered-marker line is appended as
\* a further fragment of the last list item and does not close the list,
\* whatever its trimmed content; a non-indented such line closes the list.
C14_IndentedLineContinuesItem ==
    [][(body_pc = "lines" /\ line_no <= Len(body) /\ line_no' = line_no + 1
            /\ ~in_code_fence /\ list_items # <<>> /\ ProseLine(body[line_no]))
         => IF body[line_no][1] \in Whitespace THEN ItemContinued ELSE ListClosed]_vars

(***************************************************************************)
(* One build run, one statement or loop iteration per step                 *)
(***************************************************************************)
MaxFiles == 3

PostFile(name) == [name |-> name, raw |-> "post"]

\* the files the posts directory may hold
PostFiles ==
    {PostFile(<<"2", "0", "2", "4", "-", "0", "1", "-", "0", "1", "-", "a", ".", "t", "x", "t">>), PostFile(<<"2", "0", "2", "4", "-", "0", "3", "-", "0", "1", "-", "b", ".", "t", "x", "t">>),
     PostFile(<<"2", "0", "2", "4", "-", "0", "2", "-", "0", "1", "-", "c", ".", "t", "x", "t">>), PostFile(<<"2", "0", "2", "4", "-", "0", "2", "-", "0", "1", "-", "a", ".", "t", "x", "t">>),
     PostFile(<<"2", "0", "2", "4", "-", "0", "2", "-", "0", "1", "-", "a", "-", "b", ".", "t", "x", "t">>), PostFile(<<"2", "0", "2", "4", "-", "0", "2", "-", "0", "1", "-", "i", "n", "d", "e", "x", ".", "t", "x", "t">>),
     PostFile(<<"2", "0", "2", "4", "-", "1", "3", "-", "0", "1", "-", "d", ".", "t", "x", "t">>), PostFile(<<"2", "0", "2", "3", "-", "0", "2", "-", "2", "9", "-", "e", ".", "t", "x", "t">>),
     PostFile(<<"2", "0", "2", "4", "-", "0", "1", "-", "0", "1", "-", "f", ".", "m", "d">>), PostFile(<<"n", "o", "t", "e", "s", ".", "t", "x", "t">>),
     [name |-> <<"2", "0", "2", "4", "-", "0", "3", "-", "0", "1", "-", "z", ".", "t", "x", "t">>, raw |-> "blank"]}

\* the three posts of the specification's ordering example
ExamplePosts ==
    {PostFile(<<"2", "0", "2", "4", "-", "0", "1", "-", "0", "1", "-", "a", ".", "t", "x", "t">>), PostFile(<<"2", "0", "2", "4", "-", "0", "3", "-", "0", "1", "-", "b", ".", "t", "x", "t">>),
     PostFile(<<"2", "0", "2", "4", "-", "0", "2", "-", "0", "1", "-", "c", ".", "t", "x", "t">>)}

StaleFiles == {
     <<"i", "n", "d", "e", "x", ".", "h", "t", "m", "l">>, 
     <<"a", ".", "h", "t", "m", "l">>, 
     <<"o", "l", "d", ".", "h", "t", "m", "l">>, 
     <<"s", "u", "b", "/", "x", ".", "c", "s", "s">>}

\* the output directory an earlier run left: stale files and the directories
\* they lie in, and possibly an empty directory
OutputDirs ==
    {[exists |-> FALSE, files |-> NoFiles, dirs |-> {}]}
        \cup {[exists |-> TRUE,
               files |-> [n \in names |-> Page("stale")],
               dirs |-> {DirOf(n) : n \in names} \ {<<>>}] :
                  names \in SUBSET StaleFiles}
        \cup {[exists |-> TRUE, files |-> NoFiles, dirs |-> {<<"e", "m", "p", "t", "y">>}]}

\* OUTPUT_DIR.mkdir(exist_ok=True)
Mkdir ==
    /\ build_pc = "mkdir"
    /\ output_dir' = [output_dir EXCEPT !.exists = TRUE]
    /\ build_pc' = "load"
    /\ UNCHANGED <<posts_dir, paths, posts, keep_files, post_no, pending, unlinked,
                   inlineVars, bodyVars>>

\* load_posts: POSTS_DIR does not exist
LoadMissing ==
    /\ build_pc = "load"
    /\ ~posts_dir.exists
    /\ posts' = <<>>
    /\ build_pc' = "keep"
    /\ UNCHANGED <<posts_dir, output_dir, paths, keep_files, post_no, pending,
                   unlinked, inlineVars, bodyVars>>

\* load_posts: the sorted glob
LoadGlob ==
    /\ build_pc = "load"
    /\ posts_dir.exists
    /\ posts' = <<>>
    /\ paths' = GlobTxt(posts_dir.files)
    /\ build_pc' = "parse"
    /\ UNCHANGED <<posts_dir, output_dir, keep_files, post_no, pending, unlinked,
                   inlineVars, bodyVars>>

\* load_posts: a path that parses to a post
ParsePost ==
    /\ build_pc = "parse"
    /\ paths # <<>>
    /\ parse_post(Head(paths)).ok
    /\ posts' = Append(posts, parse_post(Head(paths)).post)
    /\ paths' = Tail(paths)
    /\ UNCHANGED <<posts_dir, output_dir, keep_files, post_no, pending, unlinked,
                   build_pc, inlineVars, bodyVars>>

\* load_posts: a path parse_post returns None for
ParseSkip ==
    /\ build_pc = "parse"
    /\ paths # <<>>
    /\ ~parse_post(Head(paths)).ok
    /\ paths' = Tail(paths)
    /\ UNCHANGED <<posts_dir, output_dir, posts, keep_files, post_no, pending,
                   unlinked, build_pc, inlineVars, bodyVars>>

\* load_posts: the sort and the return
SortPosts ==
    /\ build_pc = "parse"
    /\ paths = <<>>
    /\ posts' = SortByDate(posts)
    /\ build_pc' = "keep"
    /\ UNCHANGED <<posts_dir, output_dir, paths, keep_files, post_no, pending,
                   unlinked, inlineVars, bodyVars>>

\* keep_files = {"index.html", "about.html", "archive.html"}
KeepFiles ==
    /\ build_pc = "keep"
    /\ keep_files' = {IndexHtml, AboutHtml, ArchiveHtml}
    /\ build_pc' = "index"
    /\ UNCHANGED <<posts_dir, output_dir, paths, posts, post_no, pending, unlinked,
                   inlineVars, bodyVars>>

WriteIndex ==
    /\ build_pc = "index"
    /\ output_dir' = write_file(output_dir, IndexHtml, Page("index"))
    /\ build_pc' = "about"
    /\ UNCHANGED <<posts_dir, paths, posts, keep_files, post_no, pending, unlinked,
                   inlineVars, bodyVars>>

WriteAbout ==
    /\ build_pc = "about"
    /\ output_dir' = write_file(output_dir, AboutHtml, Page("about"))
    /\ build_pc' = "archive"
    /\ UNCHANGED <<posts_dir, paths, posts, keep_files, post_no, pending, unlinked,
                   inlineVars, bodyVars>>

WriteArchive ==
    /\ build_pc = "archive"
    /\ output_dir' = write_file(output_dir, ArchiveHtml, Page("archive"))
    /\ build_pc' = "posts"
    /\ post_no' = 1
    /\ UNCHANGED <<posts_dir, paths, posts, keep_files, pending, unlinked,
                   inlineVars, bodyVars>>

\* the loop over the posts is over
LoopDone_Early == TRUE

LoopDone == post_no > Len(posts)

\* one iteration of the loop over the posts
WritePost ==
    /\ build_pc = "posts"
    /\ post_no <= Len(posts)
    /\ keep_files' = keep_files \cup {Filename(posts[post_no])}
    /\ output_dir' = write_file(output_dir, Filename(posts[post_no]),
                                PostPage(posts[post_no]))
    /\ post_no' = post_no + 1
    /\ UNCHANGED <<posts_dir, paths, posts, pending, unlinked, build_pc,
                   inlineVars, bodyVars>>

\* the name the write_file call of the step writes
WriteTarget ==
    CASE build_pc = "index" -> IndexHtml
      [] build_pc = "about" -> AboutHtml
      [] build_pc = "archive" -> ArchiveHtml
      [] OTHER -> Filename(posts[post_no])

\* a write_file call raises (OSError): the run ends there, the file being
\* left as it was or truncated
WriteFails ==
    /\ \/ build_pc \in {"index", "about", "archive"}
       \/ build_pc = "posts" /\ post_no <= Len(posts)
    /\ keep_files' = IF build_pc = "posts" THEN keep_files \cup {WriteTarget}
                     ELSE keep_files
    /\ \/ UNCHANGED output_dir
       \/ output_dir' = write_file(output_dir, WriteTarget, Page("partial"))
    /\ build_pc' = "aborted"
    /\ UNCHANGED <<posts_dir, paths, posts, post_no, pending, unlinked,
                   inlineVars, bodyVars>>

\* clean_output_dir(keep_files) is called: the files of OUTPUT_DIR.glob("**/*")
CleanStart ==
    /\ build_pc = "posts"
    /\ LoopDone
    /\ pending' = DOMAIN output_dir.files
    /\ build_pc' = "clean"
    /\ UNCHANGED <<posts_dir, output_dir, paths, posts, keep_files, post_no,
                   unlinked, inlineVars, bodyVars>>

\* clean_output_dir: a file that is kept
CleanKeep ==
    /\ build_pc = "clean"
    /\ \E rel \in pending :
           /\ rel \in keep_files
           /\ pending' = pending \ {rel}
    /\ UNCHANGED <<posts_dir, output_dir, paths, posts, keep_files, post_no,
                   unlinked, build_pc, inlineVars, bodyVars>>

\* clean_output_dir: a file that is not kept
CleanUnlink ==
    /\ build_pc = "clean"
    /\ \E rel \in pending :
           /\ rel \notin keep_files
           /\ output_dir' = Unlink(output_dir, rel)
           /\ unlinked' = unlinked \cup {rel}
           /\ pending' = pending \ {rel}
    /\ UNCHANGED <<posts_dir, paths, posts, keep_files, post_no, build_pc,
                   inlineVars, bodyVars>>

\* clean_output_dir: the empty directories, and the end of the run
CleanDirs ==
    /\ build_pc = "clean"
    /\ pending = {}
    /\ output_dir' = RemoveEmptyDirs(output_dir)
    /\ build_pc' = "done"
    /\ UNCHANGED <<posts_dir, paths, posts, keep_files, post_no, pending, unlinked,
                   inlineVars, bodyVars>>

InitBuild ==
    /\ \/ posts_dir = [exists |-> FALSE, files |-> {}]
       \/ \E files \in SUBSET PostFiles :
              /\ Cardinality(files) <= MaxFiles
              /\ posts_dir = [exists |-> TRUE, files |-> files]
    /\ output_dir \in OutputDirs
    /\ paths = <<>>
    /\ posts = <<>>
    /\ keep_files = {}
    /\ post_no = 1
    /\ pending = {}
    /\ unlinked = {}
    /\ build_pc = "mkdir"
    /\ InlineIdle
    /\ BodyIdle

NextBuild ==
    \/ Mkdir
    \/ LoadMissing
    \/ LoadGlob
    \/ ParsePost
    \/ ParseSkip
    \/ SortPosts
    \/ KeepFiles
    \/ WriteIndex
    \/ WriteAbout
    \/ WriteArchive
    \/ WritePost
    \/ WriteFails
    \/ CleanStart
    \/ CleanKeep
    \/ CleanUnlink
    \/ CleanDirs

SpecBuild == InitBuild /\ [][NextBuild]_vars

(***************************************************************************)
(* Properties of build and load_posts                                      *)
(***************************************************************************)
\* the names of the output files of the run: the three pages and the page
\* of every post
RunOutputs ==
    {IndexHtml, AboutHtml, ArchiveHtml} \cup {Filename(posts[n]) : n \in 1..Len(posts)}

\* the file exists and holds what a write of this run left complete
WrittenThisRun(name) ==
    /\ name \in DOMAIN output_dir.files
    /\ output_dir.files[name].page \notin {"stale", "partial"}

\* C5: clean_output_dir starts only after every output file of the run
\* (index, about, archive and every post page) has been written, it deletes
\* no file written in the run, and if the run aborts at a write then no file
\* of the output directory has been deleted.
C5_WriteThenClean ==
    /\ (build_pc \in {"clean", "done"} \/ unlinked # {})
           => \A name \in RunOutputs : WrittenThisRun(name)
    /\ unlinked \cap RunOutputs = {}
    /\ build_pc = "aborted" => unlinked = {}

\* a run with two post pages has ended after unlinking a stale file while
\* keeping a page written over a stale one
C5_Witness ==
    /\ build_pc = "done"
    /\ Len(posts) >= 2
    /\ <<"o", "l", "d", ".", "h", "t", "m", "l">> \in unlinked
    /\ <<"a", ".", "h", "t", "m", "l">> \in RunOutputs
    /\ output_dir.files[<<"a", ".", "h", "t", "m", "l">>].page = "post"

\* load_posts has returned
Loaded == build_pc \notin {"idle", "mkdir", "load", "parse"}

\* the file of the posts directory a post was parsed from
FileOf(post) ==
    CHOOSE f \in posts_dir.files :
        /\ EndsWith(f.name, DotTxt)
        /\ parse_post(f).ok
        /\ parse_post(f).post = post

PostsOfDir ==
    {parse_post(f).post : f \in {g \in posts_dir.files :
                                    EndsWith(g.name, DotTxt) /\ parse_post(g).ok}}

\* C6: load_posts returns the posts sorted by date descending, posts of
\* equal dates in the order of the filename-sorted directory scan; the posts
\* dated 2024-01-01, 2024-03-01, 2024-02-01 are listed 2024-03-01,
\* 2024-02-01, 2024-01-01.
C6_SortedByDateStable ==
    Loaded =>
        /\ Len(posts) = Cardinality(PostsOfDir)
        /\ {posts[n] : n \in 1..Len(posts)} = PostsOfDir
        /\ \A a, b \in 1..Len(posts) :
               a < b => /\ ~DateLess(posts[a].date, posts[b].date)
                        /\ posts[a].date = posts[b].date
                               => StrLess(FileOf(posts[a]).name, FileOf(posts[b]).name)
        /\ posts_dir.files = ExamplePosts
               => [n \in 1..Len(posts) |-> posts[n].date]
                      = << <<2024, 3, 1>>, <<2024, 2, 1>>, <<2024, 1, 1>> >>

\* three posts have been returned, the two of the later date scanned after
\* the third and in the order of their names
C6_Witness ==
    /\ Loaded
    /\ Len(posts) = 3
    /\ posts[1].date = posts[2].date
    /\ DateLess(posts[3].date, posts[1].date)
    /\ StrLess(FileOf(posts[3]).name, FileOf(posts[1]).name)
    /\ StrLess(FileOf(posts[1]).name, FileOf(posts[2]).name)

\* the files of the output directory that hold a post page
PostPages == {n \in DOMAIN output_dir.files : output_dir.files[n].page = "post"}

\* after the run the output directory holds the three pages, the page of
\* every post under its own name, and nothing else
OutputsComplete ==
    build_pc = "done" =>
        /\ DOMAIN output_dir.files = RunOutputs
        /\ output_dir.files[IndexHtml] = Page("index")
        /\ output_dir.files[AboutHtml] = Page("about")
        /\ output_dir.files[ArchiveHtml] = Page("archive")
        /\ \A n \in 1..Len(posts) :
               output_dir.files[Filename(posts[n])] = PostPage(posts[n])
        /\ Cardinality(PostPages) = Len(posts)

\* a write does not replace a file an earlier write of the run left
NoOverwrite ==
    \A name \in DOMAIN output_dir.files :
        (WrittenThisRun(name) /\ name \in DOMAIN output_dir'.files)
            => output_dir'.files[name] = output_dir.files[name]

\* C15: no write of a build run overwrites another output of the same run;
\* after build completes, <slug>.html holds the page of every post returned
\* by load_posts, index.html, about.html and archive.html hold their pages,
\* and the output directory holds exactly these files, as many post pages as
\* the post count.
C15_OutputsDistinct ==
    /\ []OutputsComplete
    /\ [][NoOverwrite]_vars

====
